---- MODULE Spec2Model ----
(***************************************************************************)
(* PicTextify: the ordered-content model, TextMerger.merge,                *)
(* TextMerger.align_pattern and the library pipeline extract_from_file.    *)
(*                                                                         *)
(* Encoding.                                                               *)
(*  - A Python str is a sequence of tokens, one per character (a file     *)
(*    path: one per piece of the f-string that builds it).  The CJK        *)
(*    characters of the source are written as ASCII tokens:                *)
(*      "TU" = U+56FE (the character tested by `"图" in content`),         *)
(*      "JU" = U+3002 (the ideographic full stop),                         *)
(*      the other CJK characters by their pinyin syllable in capitals.     *)
(*  - A position index idx is kept in half units: the model value 2*k      *)
(*    stands for the Python key k and 2*k+1 for k + 0.5.                   *)
(*  - A content item (idx, content_type, content) is the record            *)
(*    [idx |-> .., type |-> .., content |-> ..].                           *)
(***************************************************************************)
EXTENDS Integers, Sequences, FiniteSets, TLC

VARIABLES
    content_items,        \* the list handed to TextMerger.merge / align_pattern
    last,                 \* which call produced the outputs below: "none", "merge", "align"
    merged_text,          \* merge: the list merged_text, each block with its origin
    result,               \* the string returned by the last call
    patterns,             \* align_pattern: the argument patterns of the last call
    categorized_content,  \* align_pattern: the dict categorized_content
    result_list,          \* align_pattern: the list result, each line with its origin
    ocr_results,          \* the second list of a call align_pattern(text_content, ocr_results)
    raised,               \* the exception the last call raised ("": it returned)
    \* extract_from_file / extract_and_align_pattern
    pc,                   \* the position of the call in the function body
    fn,                   \* which of the two functions was called
    file_path,            \* the input file: [exists, name, doc]
    output_file,          \* the argument output_file
    temp_dir,             \* the directory of tempfile.mkdtemp(): "none", "created", "removed"
    disk,                 \* the image files present in temp_dir
    ordered_content,      \* the local ordered_content
    images_info,          \* the local images_info
    img_i,                \* the position of the OCR loop in images_info
    ocr_returns,          \* what process_single_image returned, per entry of images_info
    ocr_chats,            \* what PIL and the model did with the image, per entry
    final_text,           \* the value returned to the caller (None: nothing returned)
    written,              \* the content of the output file (None: not written)
    exc,                  \* the exception that reaches the caller ("": none)
    \* FileHandler
    fh_path,              \* the path handed to FileHandler
    fh_kind,              \* what is at the path: "missing", "dir", "file"
    fh_last,              \* which method was called: "none", "get_file_type", "validate_file"
    fh_ret                \* what the method returned

textVars == <<content_items, last, merged_text, result, patterns, categorized_content,
              result_list, ocr_results, raised>>

extractVars == <<pc, fn, file_path, output_file, temp_dir, disk, ordered_content,
                 images_info, img_i, ocr_returns, ocr_chats, final_text, written, exc>>

fileVars == <<fh_path, fh_kind, fh_last, fh_ret>>

vars == <<textVars, extractVars, fileVars>>

(***************************************************************************)
(* Bounds of the model                                                     *)
(***************************************************************************)
MaxItems == 3             \* longest list handed to merge
MaxKey == 1               \* largest position index handed to merge, in half units
MaxAlignItems == 2        \* longest list handed to align_pattern
MaxAlignKey == 1          \* largest position index handed to align_pattern, in half units
MaxCallItems == 2         \* longest list handed to both methods in turn
MaxCallKey == 1           \* largest position index of such a list, in half units
MaxPairs == 2             \* longest list of pairs handed to align_pattern
MaxPairKey == 1           \* largest key of a pair

(***************************************************************************)
(* Python str helpers                                                      *)
(***************************************************************************)
\* Python's None
None == "None"

\* the document of a path that holds no document, and the value of file_path
\* before a call
NoDoc == [openable |-> FALSE]
NoFile == [exists |-> FALSE, name |-> <<>>, doc |-> NoDoc]

Whitespace == {" ", "\n", "\t"}

RECURSIVE LStrip(_)
LStrip(s) == IF s # <<>> /\ Head(s) \in Whitespace THEN LStrip(Tail(s)) ELSE s

RECURSIVE RStrip(_)
RStrip(s) ==
    IF s # <<>> /\ s[Len(s)] \in Whitespace THEN RStrip(SubSeq(s, 1, Len(s) - 1)) ELSE s

\* str.strip()
strip(s) == RStrip(LStrip(s))

\* NonBlank with .strip() forgotten (a faulty variant)
NonBlankNoStrip(content) == content # <<>>

\* the test `content and content.strip()`
NonBlank(content) == content # <<>> /\ strip(content) # <<>>

\* "\n\n", the separator of "\n\n".join(...)
Sep == <<"\n", "\n">>

RECURSIVE Join(_)
\* "\n\n".join(parts)
Join(parts) ==
    IF parts = <<>> THEN <<>>
    ELSE IF Len(parts) = 1 THEN parts[1]
    ELSE parts[1] \o Sep \o Join(Tail(parts))

\* f"[图片内容无法识别]"
Placeholder == <<"[", "TU", "PIAN", "NEI", "RONG", "WU", "FA", "SHI", "BIE", "]">>

(***************************************************************************)
(* sorted(content_items, key=lambda x: x[0]): a stable ascending sort.     *)
(* SortPerm is the permutation the sort applies: SortPerm(items)[i] is the *)
(* position in items of the i-th item of the sorted list.                  *)
(***************************************************************************)
RECURSIVE InsertByKey(_, _, _)
InsertByKey(perm, j, items) ==
    IF perm = <<>> THEN <<j>>
    ELSE IF items[perm[Len(perm)]].idx <= items[j].idx THEN Append(perm, j)
    ELSE Append(InsertByKey(SubSeq(perm, 1, Len(perm) - 1), j, items), perm[Len(perm)])

RECURSIVE SortPrefix(_, _)
SortPrefix(items, n) ==
    IF n = 0 THEN <<>> ELSE InsertByKey(SortPrefix(items, n - 1), n, items)

\* SortPerm with the sort left out (a faulty variant)
SortPermUnsorted(items) == [i \in 1..Len(items) |-> i]

SortPerm(items) == SortPrefix(items, Len(items))

sorted(items) == [i \in 1..Len(items) |-> items[SortPerm(items)[i]]]

(***************************************************************************)
(* TextMerger.merge                                                        *)
(***************************************************************************)
\* the inner loop of the OCR mapping: the first image of sorted_items whose
\* index equals idx (0: none)
FirstImageAt(sorted_items, idx) ==
    LET c == {m \in 1..Len(sorted_items) :
                sorted_items[m].type = "image" /\ sorted_items[m].idx = idx}
    IN IF c = {} THEN 0 ELSE CHOOSE m \in c : \A o \in c : m <= o

RECURSIVE OcrMapPrefix(_, _)
\* ocr_map after the first n items of sorted_items: image path -> the
\* position in sorted_items of the 'ocr' item whose content it holds
OcrMapPrefix(sorted_items, n) ==
    IF n = 0 THEN <<>>
    ELSE LET prev == OcrMapPrefix(sorted_items, n - 1)
             it == sorted_items[n]
             m == FirstImageAt(sorted_items, it.idx)
         IN IF it.type = "ocr" /\ NonBlank(it.content) /\ m # 0
            THEN [p \in DOMAIN prev \cup {sorted_items[m].content} |->
                    IF p = sorted_items[m].content THEN n ELSE prev[p]]
            ELSE prev

ocr_map(sorted_items) == OcrMapPrefix(sorted_items, Len(sorted_items))

RECURSIVE MergeLoopOcrEmitted(_, _, _, _)
\* MergeLoop with the text of a non-blank 'ocr' item also emitted at the
\* item's own turn (a faulty variant)
MergeLoopOcrEmitted(sorted_items, perm, map, n) ==
    IF n = 0 THEN <<>>
    ELSE LET prev == MergeLoopOcrEmitted(sorted_items, perm, map, n - 1)
             it == sorted_items[n]
         IN IF it.type \in {"text", "ocr"} /\ NonBlank(it.content)
            THEN Append(prev, [item |-> perm[n], src |-> perm[n], text |-> it.content])
            ELSE IF it.type = "image" /\ it.content \in DOMAIN map
            THEN Append(prev, [item |-> perm[n], src |-> perm[map[it.content]],
                               text |-> sorted_items[map[it.content]].content])
            ELSE IF it.type = "image"
            THEN Append(prev, [item |-> perm[n], src |-> 0, text |-> Placeholder])
            ELSE prev

RECURSIVE MergeLoop(_, _, _, _)
\* merged_text after the first n items of sorted_items. Each block records
\*   item: the position in content_items of the item at whose turn it was emitted,
\*   src:  the position in content_items of the item whose payload it carries
\*         (0 for the placeholder),
\*   text: the string appended to merged_text.
MergeLoop(sorted_items, perm, map, n) ==
    IF n = 0 THEN <<>>
    ELSE LET prev == MergeLoop(sorted_items, perm, map, n - 1)
             it == sorted_items[n]
         IN IF it.type = "text" /\ NonBlank(it.content)
            THEN Append(prev, [item |-> perm[n], src |-> perm[n], text |-> it.content])
            ELSE IF it.type = "image" /\ it.content \in DOMAIN map
            THEN Append(prev, [item |-> perm[n], src |-> perm[map[it.content]],
                               text |-> sorted_items[map[it.content]].content])
            ELSE IF it.type = "image"
            THEN Append(prev, [item |-> perm[n], src |-> 0, text |-> Placeholder])
            ELSE prev

\* merge_blocks without the early return, the empty list taken for an
\* unrecognized image (a faulty variant)
merge_blocks_no_guard(items) ==
    IF items = <<>> THEN <<[item |-> 0, src |-> 0, text |-> Placeholder]>>
    ELSE MergeLoop(sorted(items), SortPerm(items), ocr_map(sorted(items)), Len(items))

\* the list merged_text of merge(content_items); the empty list returns early
merge_blocks(items) ==
    IF items = <<>> THEN <<>>
    ELSE MergeLoop(sorted(items), SortPerm(items), ocr_map(sorted(items)), Len(items))

Texts(blocks) == [i \in 1..Len(blocks) |-> blocks[i].text]

\* content_items.sort(key=lambda x: x[0]): the caller's list after a sort in
\* place (merge_with_metadata sorts so; merge and align_pattern do not)
sort_in_place(items) == sorted(items)

\* the caller's list after merge: sorted() builds a new list, and no statement
\* of merge assigns to content_items or to an element of it
merge_argument_after(items) == items

\* TextMerger.merge(content_items)
merge(items) == Join(Texts(merge_blocks(items)))

(***************************************************************************)
(* The lists handed to merge                                               *)
(***************************************************************************)
Keys == 0..MaxKey

MergeTexts == {<<>>, <<" ">>, <<"a">>}
MergePaths == {<<"p">>, <<"q">>}
MergeOcrs == {<<" ">>, <<"x">>}

MergeItems ==
    [idx : Keys, type : {"text"}, content : MergeTexts]
    \cup [idx : Keys, type : {"image"}, content : MergePaths]
    \cup [idx : Keys, type : {"ocr"}, content : MergeOcrs]

Init ==
    /\ content_items = <<>>
    /\ last = "none"
    /\ merged_text = <<>>
    /\ result = <<>>
    /\ patterns = None
    /\ categorized_content = <<>>
    /\ result_list = <<>>
    /\ ocr_results = <<>>
    /\ raised = ""
    /\ pc = "idle"
    /\ fn = None
    /\ file_path = NoFile
    /\ output_file = None
    /\ temp_dir = "none"
    /\ disk = {}
    /\ ordered_content = <<>>
    /\ images_info = <<>>
    /\ img_i = 0
    /\ ocr_returns = <<>>
    /\ ocr_chats = <<>>
    /\ final_text = None
    /\ written = None
    /\ exc = ""
    /\ fh_path = <<>>
    /\ fh_kind = "missing"
    /\ fh_last = "none"
    /\ fh_ret = None

\* the caller builds the list, in any order
AppendMergeItem ==
    /\ Len(content_items) < MaxItems
    /\ \E it \in MergeItems : content_items' = Append(content_items, it)
    /\ last' = "none"
    /\ merged_text' = <<>>
    /\ result' = <<>>
    /\ patterns' = None
    /\ categorized_content' = <<>>
    /\ result_list' = <<>>
    /\ raised' = ""
    /\ UNCHANGED ocr_results
    /\ UNCHANGED <<extractVars, fileVars>>

\* result = TextMerger().merge(content_items)
Merge ==
    /\ last = "none"
    /\ last' = "merge"
    /\ merged_text' = merge_blocks(content_items)
    /\ result' = merge(content_items)
    /\ content_items' = merge_argument_after(content_items)
    /\ UNCHANGED <<patterns, categorized_content, result_list, raised>>
    /\ UNCHANGED ocr_results
    /\ UNCHANGED <<extractVars, fileVars>>

NextMerge == AppendMergeItem \/ Merge

SpecMerge == Init /\ [][NextMerge]_vars

(***************************************************************************)
(* TextMerger.align_pattern                                                *)
(***************************************************************************)
\* the category labels "标题", "正文", "图片说明", "其他"
Title == <<"BIAO", "TI">>
Body == <<"ZHENG", "WEN">>
Caption == <<"TU", "PIAN", "SHUO", "MING">>
Other == <<"QI", "TA">>

\* patterns = ["标题", "正文", "图片说明"] when the caller passes None
DefaultPatterns == <<Title, Body, Caption>>

\* the length limits of the heuristic
TitleMaxLen == 100
CaptionMaxLen == 200

\* the tuple handed to str.endswith
Terminals == {"JU", ".", "!", "?"}

\* s.endswith(("。", ".", "!", "?"))
endswith(s) == s # <<>> /\ s[Len(s)] \in Terminals

\* text_category with len(content) <= 100 for < 100 (a faulty variant)
text_category_le(content) ==
    IF Len(content) <= TitleMaxLen /\ endswith(strip(content)) THEN Title
    ELSE IF (\E i \in 1..Len(content) : content[i] = "TU") /\ Len(content) < CaptionMaxLen
    THEN Caption
    ELSE Body

\* the heuristic for a 'text' item
text_category(content) ==
    IF Len(content) < TitleMaxLen /\ endswith(strip(content)) THEN Title
    ELSE IF (\E i \in 1..Len(content) : content[i] = "TU") /\ Len(content) < CaptionMaxLen
    THEN Caption
    ELSE Body

\* category with the text heuristic run on 'ocr' items too (a faulty variant)
category_ocr_as_text(it) ==
    IF it.type \in {"text", "ocr"} THEN text_category(it.content) ELSE Other

\* the bucket an item is appended to
category(it) ==
    IF it.type = "text" THEN text_category(it.content)
    ELSE IF it.type = "ocr" THEN Caption
    ELSE Other

\* a faulty variant: the path appended as it is
rendered_raw(it) == it.content

\* what is appended to the bucket: f"[图片: {content}]" for an image, the
\* content itself otherwise
rendered(it) ==
    IF it.type = "image" THEN <<"[", "TU", "PIAN", ":", " ">> \o it.content \o <<"]">>
    ELSE it.content

\* categorized_content before the loop: one empty bucket per pattern and "其他"
empty_buckets(pats) ==
    [l \in {pats[i] : i \in 1..Len(pats)} \cup {Other} |-> <<>>]

RECURSIVE ClassifyLoop(_, _, _, _)
\* the classification loop over the first n items of sorted_items: the dict
\* reached, or the KeyError raised by an append to a bucket that does not
\* exist. Each entry records item, the position of its item in content_items.
ClassifyLoop(sorted_items, perm, pats, n) ==
    IF n = 0 THEN [raised |-> "", cat |-> empty_buckets(pats)]
    ELSE LET prev == ClassifyLoop(sorted_items, perm, pats, n - 1)
             it == sorted_items[n]
             l == category(it)
         IN IF prev.raised # "" THEN prev
            ELSE IF ~NonBlank(it.content) THEN prev
            ELSE IF l \notin DOMAIN prev.cat THEN [raised |-> "KeyError", cat |-> prev.cat]
            ELSE [raised |-> "",
                  cat |-> [prev.cat EXCEPT
                             ![l] = Append(@, [idx |-> it.idx, item |-> perm[n],
                                               content |-> rendered(it)])]]

\* the lines a section adds to result: nothing for an empty bucket, else the
\* heading, the contents in sorted(bucket, key=lambda x: x[0]) order and,
\* for the first three sections, a trailing "". Each line records its kind
\* and, for a content line, item, the position of its item in content_items.
section_lines(heading, bucket, trailing) ==
    IF bucket = <<>> THEN <<>>
    ELSE << [kind |-> "heading", item |-> 0, text |-> heading] >>
         \o [i \in 1..Len(bucket) |->
                [kind |-> "item", item |-> sorted(bucket)[i].item,
                 text |-> sorted(bucket)[i].content]]
         \o (IF trailing THEN << [kind |-> "blank", item |-> 0, text |-> <<>>] >>
             ELSE <<>>)

\* a faulty variant: the Caption section formatted before the Body section
result_lines_caption_first(cat) ==
    section_lines(<<"#", " ", "BIAO", "TI">>, cat[Title], TRUE)
    \o section_lines(<<"#", " ", "TU", "PIAN", "SHUO", "MING">>, cat[Caption], TRUE)
    \o section_lines(<<"#", " ", "ZHENG", "WEN">>, cat[Body], TRUE)
    \o section_lines(<<"#", " ", "QI", "TA", "NEI", "RONG">>, cat[Other], FALSE)

\* the list result of the formatting stage
result_lines(cat) ==
    section_lines(<<"#", " ", "BIAO", "TI">>, cat[Title], TRUE)
    \o section_lines(<<"#", " ", "ZHENG", "WEN">>, cat[Body], TRUE)
    \o section_lines(<<"#", " ", "TU", "PIAN", "SHUO", "MING">>, cat[Caption], TRUE)
    \o section_lines(<<"#", " ", "QI", "TA", "NEI", "RONG">>, cat[Other], FALSE)

\* the caller's list after align_pattern: sorted() builds a new list, and no
\* statement of align_pattern assigns to ordered_content or to an element of it
align_argument_after(items) == items

\* align_pattern(items, patterns): the exception raised, the dict, the list
\* result and the string returned, "\n\n".join(result)
align_pattern(items, pats_arg) ==
    LET pats == IF pats_arg = None THEN DefaultPatterns ELSE pats_arg
        loop == ClassifyLoop(sorted(items), SortPerm(items), pats, Len(items))
    IN IF loop.raised # ""
       THEN [raised |-> loop.raised, cat |-> loop.cat, lines |-> <<>>, out |-> <<>>]
       ELSE IF {Title, Body, Caption} \subseteq DOMAIN loop.cat
       THEN [raised |-> "", cat |-> loop.cat, lines |-> result_lines(loop.cat),
             out |-> Join(Texts(result_lines(loop.cat)))]
       ELSE [raised |-> "KeyError", cat |-> loop.cat, lines |-> <<>>, out |-> <<>>]

(***************************************************************************)
(* The lists handed to align_pattern                                       *)
(***************************************************************************)
Rep(c, n) == [i \in 1..n |-> c]

AlignKeys == 0..MaxAlignKey

AlignTexts ==
    { <<>>, <<"a">>, <<"a", "JU", " ">>, <<"TU", "JU">>,
      Rep("a", TitleMaxLen - 2) \o <<".">>,
      Rep("a", TitleMaxLen - 1) \o <<"!">>,
      <<"TU">> \o Rep("a", TitleMaxLen - 2) \o <<"!">>,
      <<"TU">> \o Rep("a", CaptionMaxLen - 2),
      <<"TU">> \o Rep("a", CaptionMaxLen - 1) }
AlignOcrs == {<<" ">>, <<"x", "JU">>, Rep("x", CaptionMaxLen)}
AlignPaths == {<<"p">>, <<" ">>}

AlignItems ==
    [idx : AlignKeys, type : {"text"}, content : AlignTexts]
    \cup [idx : AlignKeys, type : {"ocr"}, content : AlignOcrs]
    \cup [idx : AlignKeys, type : {"image"}, content : AlignPaths]

\* the values of the argument patterns
PatternChoices == {None, <<Title, Body, Caption, <<"X">>>>, << <<"X">> >>}

\* the caller builds the list, in any order
AppendAlignItem ==
    /\ Len(content_items) < MaxAlignItems
    /\ \E it \in AlignItems : content_items' = Append(content_items, it)
    /\ last' = "none"
    /\ result' = <<>>
    /\ patterns' = None
    /\ categorized_content' = <<>>
    /\ result_list' = <<>>
    /\ raised' = ""
    /\ merged_text' = <<>>
    /\ UNCHANGED ocr_results
    /\ UNCHANGED <<extractVars, fileVars>>

\* result = TextMerger().align_pattern(content_items, patterns)
Align ==
    /\ last = "none"
    /\ \E pats \in PatternChoices :
          LET r == align_pattern(content_items, pats)
          IN /\ patterns' = pats
             /\ categorized_content' = r.cat
             /\ result_list' = r.lines
             /\ raised' = r.raised
             /\ result' = r.out
    /\ last' = "align"
    /\ content_items' = align_argument_after(content_items)
    /\ UNCHANGED merged_text
    /\ UNCHANGED ocr_results
    /\ UNCHANGED <<extractVars, fileVars>>

NextAlign == AppendAlignItem \/ Align

SpecAlign == Init /\ [][NextAlign]_vars

\* one list, built by the caller in any order, handed to either method of
\* TextMerger
CallItems ==
    [idx : 0..MaxCallKey, type : {"text"}, content : MergeTexts]
    \cup [idx : 0..MaxCallKey, type : {"image"}, content : MergePaths]
    \cup [idx : 0..MaxCallKey, type : {"ocr"}, content : MergeOcrs]

AppendCallItem ==
    /\ Len(content_items) < MaxCallItems
    /\ \E it \in CallItems : content_items' = Append(content_items, it)
    /\ last' = "none"
    /\ merged_text' = <<>>
    /\ result' = <<>>
    /\ patterns' = None
    /\ categorized_content' = <<>>
    /\ result_list' = <<>>
    /\ raised' = ""
    /\ UNCHANGED ocr_results
    /\ UNCHANGED <<extractVars, fileVars>>

NextCalls == AppendCallItem \/ Merge \/ Align

SpecCalls == Init /\ [][NextCalls]_vars

(***************************************************************************)
(* align_pattern called as tests/test_pattern_alignment.py calls it, with  *)
(* a list of (key, text) pairs and a list of (key, OCR text) pairs         *)
(***************************************************************************)
\* align_pattern(text_content, ocr_results): the second list is bound to the
\* parameter patterns, so the buckets are keyed by its pairs and by "其他";
\* `for idx, content_type, content in sorted_items` cannot unpack a pair
\* (ValueError), and with no item to unpack the formatting stage reads the
\* bucket "标题", which no pair is (KeyError)
align_pattern_pairs(text_content, pairs) ==
    IF text_content # <<>> THEN [raised |-> "ValueError", out |-> <<>>]
    ELSE [raised |-> "KeyError", out |-> <<>>]

PairKeys == 0..MaxPairKey
PairTexts == {<<"a">>, <<"b">>}
Pairs == [idx : PairKeys, content : PairTexts]

\* the caller builds the two lists
AppendTextPair ==
    /\ last = "none"
    /\ Len(content_items) < MaxPairs
    /\ \E pr \in Pairs : content_items' = Append(content_items, pr)
    /\ UNCHANGED <<last, merged_text, result, patterns, categorized_content,
                   result_list, ocr_results, raised>>
    /\ UNCHANGED <<extractVars, fileVars>>

AppendOcrPair ==
    /\ last = "none"
    /\ Len(ocr_results) < MaxPairs
    /\ \E pr \in Pairs : ocr_results' = Append(ocr_results, pr)
    /\ UNCHANGED <<content_items, last, merged_text, result, patterns,
                   categorized_content, result_list, raised>>
    /\ UNCHANGED <<extractVars, fileVars>>

\* result = TextMerger().align_pattern(text_content, ocr_results)
AlignPairs ==
    /\ last = "none"
    /\ LET r == align_pattern_pairs(content_items, ocr_results)
       IN /\ raised' = r.raised
          /\ result' = r.out
    /\ last' = "align"
    /\ UNCHANGED <<content_items, merged_text, patterns, categorized_content,
                   result_list, ocr_results>>
    /\ UNCHANGED <<extractVars, fileVars>>

NextAlignPairs == AppendTextPair \/ AppendOcrPair \/ AlignPairs

SpecAlignPairs == Init /\ [][NextAlignPairs]_vars

(***************************************************************************)
(* The extractors. A path is the sequence of the pieces of its f-string.   *)
(***************************************************************************)
\* str(n) for a small n
Digit(n) == <<"0", "1", "2", "3", "4", "5", "6", "7", "8", "9">>[n + 1]

RECURSIVE JoinLines(_)
\* "\n".join(parts)
JoinLines(parts) ==
    IF parts = <<>> THEN <<>>
    ELSE IF Len(parts) = 1 THEN parts[1]
    ELSE parts[1] \o <<"\n">> \o JoinLines(Tail(parts))

\* f"page_{page_num_display}_image_{k}.png" in the output directory
PdfImagePath(page_num_display, k) ==
    <<"page_", Digit(page_num_display), "_image_", Digit(k), ".png">>

\* the state of an extractor run: the lists ordered_items and images_info,
\* the counter item_index and the files written to the output directory
ExtractStart == [ordered_items |-> <<>>, images_info |-> <<>>, item_index |-> 0,
                 files |-> {}]

\* a faulty variant: the text appended without item_index += 1
AddText_no_increment(st, text) ==
    [st EXCEPT !.ordered_items = Append(@, [idx |-> 2 * st.item_index, type |-> "text",
                                            content |-> text])]

\* a faulty variant: the image appended to ordered_items only
AddImage_no_info(st, image_path) ==
    [st EXCEPT !.ordered_items = Append(@, [idx |-> 2 * st.item_index, type |-> "image",
                                            content |-> image_path]),
               !.item_index = @ + 1]

\* ordered_items.append((item_index, "text", text)); item_index += 1
AddText(st, text) ==
    [st EXCEPT !.ordered_items = Append(@, [idx |-> 2 * st.item_index, type |-> "text",
                                            content |-> text]),
               !.item_index = @ + 1]

\* ordered_items.append((item_index, "image", image_path));
\* images_info.append((item_index, image_path)); item_index += 1
AddImage(st, image_path) ==
    [st EXCEPT !.ordered_items = Append(@, [idx |-> 2 * st.item_index, type |-> "image",
                                            content |-> image_path]),
               !.images_info = Append(@, [idx |-> 2 * st.item_index, path |-> image_path]),
               !.item_index = @ + 1]

RECURSIVE PdfBlocks(_, _, _, _)
\* the loop over the first n blocks of a page. A text block holds the
\* concatenation of its spans; an image block whose pixmap cannot be saved
\* is logged and skipped.
PdfBlocks(st, blocks, page_num_display, n) ==
    IF n = 0 THEN st
    ELSE LET prev == PdfBlocks(st, blocks, page_num_display, n - 1)
             block == blocks[n]
             image_path == PdfImagePath(page_num_display, Len(prev.images_info) + 1)
         IN IF block.type = 0
            THEN IF strip(block.text) # <<>> THEN AddText(prev, strip(block.text)) ELSE prev
            ELSE IF block.ok
            THEN AddImage([prev EXCEPT !.files = @ \cup {image_path}], image_path)
            ELSE prev

RECURSIVE PdfGetImages(_, _, _, _)
\* the fallback loop over the first n entries of page.get_images()
PdfGetImages(st, img_list, page_num_display, n) ==
    IF n = 0 THEN st
    ELSE LET prev == PdfGetImages(st, img_list, page_num_display, n - 1)
             image_path == PdfImagePath(page_num_display, n)
         IN IF img_list[n]
            THEN AddImage([prev EXCEPT !.files = @ \cup {image_path}], image_path)
            ELSE prev

RECURSIVE PdfPages(_, _)
\* the loop over the first n pages
PdfPages(pages, n) ==
    IF n = 0 THEN ExtractStart
    ELSE LET page == pages[n]
             st == PdfBlocks(PdfPages(pages, n - 1), page.blocks, n, Len(page.blocks))
         IN IF \A b \in 1..Len(page.blocks) : page.blocks[b].type # 1
            THEN PdfGetImages(st, page.img_list, n, Len(page.img_list))
            ELSE st

\* PDFProcessor.process(pdf_path, output_dir): fitz.open raises for a file
\* that is no PDF
pdf_process(doc) ==
    IF ~doc.openable THEN [raised |-> "FileDataError", st |-> ExtractStart]
    ELSE [raised |-> "", st |-> PdfPages(doc.pages, Len(doc.pages))]

\* f"image_{rel_id}.png" in the output directory
DocxImagePath(rel_id) == <<"image_", rel_id, ".png">>

SeqToSet(q) == {q[i] : i \in 1..Len(q)}

RECURSIVE AddImages(_, _)
\* the loop `for rel_id in img_rel_ids`
AddImages(st, img_rel_ids) ==
    IF img_rel_ids = <<>> THEN st
    ELSE AddImages(AddImage(st, DocxImagePath(Head(img_rel_ids))), Tail(img_rel_ids))

RECURSIVE DocxParagraphs(_, _, _, _)
\* the loop over the first n paragraphs: the text of the paragraph, when not
\* blank, then one image item per a:blip whose rel_id is in image_map
DocxParagraphs(st, paragraphs, image_map, n) ==
    IF n = 0 THEN st
    ELSE LET prev == DocxParagraphs(st, paragraphs, image_map, n - 1)
             paragraph == paragraphs[n]
             img_rel_ids == SelectSeq(paragraph.blips, LAMBDA r : r \in image_map)
             withText == IF strip(paragraph.text) # <<>>
                         THEN AddText(prev, paragraph.text) ELSE prev
         IN AddImages(withText, img_rel_ids)

RECURSIVE DocxTables(_, _, _)
\* the loop over the first n tables: the non-blank cell paragraphs of a
\* table, joined with "\n", are one text item
DocxTables(st, tables, n) ==
    IF n = 0 THEN st
    ELSE LET prev == DocxTables(st, tables, n - 1)
             table_text == SelectSeq(tables[n], LAMBDA t : strip(t) # <<>>)
         IN IF table_text # <<>> THEN AddText(prev, JoinLines(table_text)) ELSE prev

RECURSIVE DocxUnprocessed(_, _, _, _)
\* the loop over the first n entries of image_map: an image no paragraph
\* referred to is appended at the end
DocxUnprocessed(st, rels, processed_images, n) ==
    IF n = 0 THEN st
    ELSE LET prev == DocxUnprocessed(st, rels, processed_images, n - 1)
         IN IF DocxImagePath(rels[n]) \notin processed_images
            THEN AddImage(prev, DocxImagePath(rels[n]))
            ELSE prev

\* DocxProcessor.process(docx_path, output_dir): docx.Document raises for a
\* file that is no Word document
docx_process(doc) ==
    IF ~doc.openable THEN [raised |-> "PackageNotFoundError", st |-> ExtractStart]
    ELSE LET image_map == SeqToSet(doc.rels)
             saved == [ExtractStart EXCEPT !.files = {DocxImagePath(r) : r \in image_map}]
             body == DocxTables(
                        DocxParagraphs(saved, doc.paragraphs, image_map,
                                       Len(doc.paragraphs)),
                        doc.tables, Len(doc.tables))
             processed_images ==
                 {body.ordered_items[i].content : i \in
                     {k \in 1..Len(body.ordered_items) :
                         body.ordered_items[k].type = "image"}}
             all == DocxUnprocessed(body, doc.rels, processed_images, Len(doc.rels))
         IN [raised |-> "",
             st |-> [all EXCEPT !.ordered_items = sorted(all.ordered_items),
                                !.images_info = sorted(all.images_info)]]

(***************************************************************************)
(* FileHandler.get_file_type                                               *)
(***************************************************************************)
\* a path is the sequence of its characters
\* c.lower(), for the letters of the model's paths
lower_char(c) ==
    IF c = "P" THEN "p" ELSE IF c = "D" THEN "d" ELSE IF c = "F" THEN "f"
    ELSE IF c = "O" THEN "o" ELSE IF c = "C" THEN "c" ELSE IF c = "X" THEN "x"
    ELSE IF c = "T" THEN "t" ELSE IF c = "A" THEN "a" ELSE c

\* a faulty variant: the extension compared as it is
lower_identity(ext) == ext

\* ext.lower()
lower(ext) == [i \in 1..Len(ext) |-> lower_char(ext[i])]

\* p.rfind(c) + 1: the last position of c in p, 0 when c is not in p
rfind(p, c) ==
    LET at == {i \in 1..Len(p) : p[i] = c}
    IN IF at = {} THEN 0 ELSE CHOOSE i \in at : \A j \in at : j <= i

\* os.path.splitext(p)[1]: from the last dot of the last component, unless
\* that component has only dots before it
splitext(p) ==
    LET sepIndex == rfind(p, "/")
        dotIndex == rfind(p, ".")
    IN IF dotIndex > sepIndex /\ \E k \in (sepIndex + 1)..(dotIndex - 1) : p[k] # "."
       THEN SubSeq(p, dotIndex, Len(p))
       ELSE <<>>

\* FileHandler.get_file_type(file_path)
get_file_type(file_path_arg) ==
    LET ext == lower(splitext(file_path_arg))
    IN IF ext = <<".", "p", "d", "f">> THEN "pdf"
       ELSE IF ext = <<".", "d", "o", "c", "x">> THEN "docx"
       ELSE None

\* f"文件 '{file_path}' 不存在"
MsgMissing(file_path_arg) ==
    <<"WEN", "JIAN", " ", "'">> \o file_path_arg \o <<"'", " ", "BU", "CUN", "ZAI">>

\* f"'{file_path}' 不是一个文件"
MsgNotFile(file_path_arg) ==
    <<"'">> \o file_path_arg \o <<"'", " ", "BU", "SHI", "YI", "GE", "WEN", "JIAN">>

\* "不支持的文件类型，仅支持PDF和DOCX格式"
MsgUnsupported ==
    <<"BU", "ZHI", "CHI", "DE", "WEN", "JIAN", "LEI", "XING", ",", "JIN", "ZHI", "CHI",
      "P", "D", "F", "HE", "D", "O", "C", "X", "GE", "SHI">>

\* a faulty variant: the type checked before the existence of the file
validate_file_type_first(file_path_arg, kind) ==
    IF get_file_type(file_path_arg) \notin {"pdf", "docx"}
    THEN [valid |-> FALSE, msg |-> MsgUnsupported]
    ELSE IF kind = "missing"
    THEN [valid |-> FALSE,
          msg |-> MsgMissing(file_path_arg)]
    ELSE IF kind # "file"
    THEN [valid |-> FALSE,
          msg |-> MsgNotFile(file_path_arg)]
    ELSE [valid |-> TRUE, msg |-> None]

\* FileHandler.validate_file(file_path), for a path that is missing, a
\* directory or a regular file: (valid, message), with the messages
\* "文件 '<path>' 不存在", "'<path>' 不是一个文件" and "不支持的文件类型..."
validate_file(file_path_arg, kind) ==
    IF kind = "missing"
    THEN [valid |-> FALSE,
          msg |-> MsgMissing(file_path_arg)]
    ELSE IF kind # "file"
    THEN [valid |-> FALSE,
          msg |-> MsgNotFile(file_path_arg)]
    ELSE IF get_file_type(file_path_arg) \notin {"pdf", "docx"}
    THEN [valid |-> FALSE, msg |-> MsgUnsupported]
    ELSE [valid |-> TRUE, msg |-> None]

(***************************************************************************)
(* The calls of FileHandler                                                *)
(***************************************************************************)
RECURSIVE CaseVariants(_)
\* the spellings of a string in upper and lower case letters
CaseVariants(ext) ==
    IF ext = <<>> THEN {<<>>}
    ELSE LET upper == IF Head(ext) = "p" THEN "P" ELSE IF Head(ext) = "d" THEN "D"
                      ELSE IF Head(ext) = "f" THEN "F" ELSE IF Head(ext) = "o" THEN "O"
                      ELSE IF Head(ext) = "c" THEN "C" ELSE IF Head(ext) = "x" THEN "X"
                      ELSE Head(ext)
         IN {<<c>> \o rest : c \in {Head(ext), upper}, rest \in CaseVariants(Tail(ext))}

\* the endings of the paths: the two supported extensions in every
\* spelling, other extensions, none
HandlerEndings ==
    CaseVariants(<<".", "p", "d", "f">>) \cup CaseVariants(<<".", "d", "o", "c", "x">>)
    \cup { <<>>, <<".">>, <<".", "t", "x", "t">>, <<".", "p", "d">>,
           <<".", "p", "d", "f", "x">>, <<".", "p", "d", "f", " ">>,
           <<".", "p", "d", "f", "/">>, <<".", "p", "d", "f", ".">>,
           <<"p", "d", "f">>, <<".", "d", "o", "c">> }

\* what precedes the ending: a name, nothing, a directory, a name with a dot
HandlerStems == { <<"a">>, <<>>, <<"d", "/">>, <<"a", ".", "b">>, <<".">> }

HandlerPaths == {stem \o ending : stem \in HandlerStems, ending \in HandlerEndings}

\* a path, and what the file system holds there
ChoosePath ==
    /\ fh_last = "none"
    /\ fh_path = <<>>
    /\ fh_kind = "missing"
    /\ \E path \in HandlerPaths, kind \in {"missing", "dir", "file"} :
          /\ fh_path' = path
          /\ fh_kind' = kind
    /\ UNCHANGED <<fh_last, fh_ret>>
    /\ UNCHANGED <<textVars, extractVars>>

\* fh_ret = FileHandler().get_file_type(fh_path)
GetFileType ==
    /\ fh_last = "none"
    /\ fh_last' = "get_file_type"
    /\ fh_ret' = get_file_type(fh_path)
    /\ UNCHANGED <<fh_path, fh_kind>>
    /\ UNCHANGED <<textVars, extractVars>>

\* fh_ret = FileHandler().validate_file(fh_path)
ValidateFile ==
    /\ fh_last = "none"
    /\ fh_last' = "validate_file"
    /\ fh_ret' = validate_file(fh_path, fh_kind)
    /\ UNCHANGED <<fh_path, fh_kind>>
    /\ UNCHANGED <<textVars, extractVars>>

NextFileHandler == ChoosePath \/ GetFileType \/ ValidateFile

SpecFileHandler == Init /\ [][NextFileHandler]_vars

(***************************************************************************)
(* OCRProcessor.process_single_image                                       *)
(***************************************************************************)
\* "【图片文字无法识别】"
OcrFailText == <<"[[", "TU", "PIAN", "WEN", "ZI", "WU", "FA", "SHI", "BIE", "]]">>

\* _process_with_got_ocr: model.chat raises, or returns chat.text
process_with_got_ocr(chat) ==
    IF chat.kind = "raises" THEN OcrFailText
    ELSE IF chat.text = <<>> \/ strip(chat.text) = <<>> THEN OcrFailText
    ELSE chat.text

\* a faulty variant: the OCR text keyed at idx + 1, the key of the next item
ocr_key_next(idx) == idx + 2

\* the key of the OCR text of the image at key idx: idx + 0.5, in half units
ocr_key(idx) == idx + 1

\* process_single_image(image_path), with the files on disk and what PIL
\* and the model do with the image
process_single_image(image_path, files, chat) ==
    IF image_path \notin files THEN <<>>
    ELSE IF chat.kind = "unreadable" THEN <<>>
    ELSE process_with_got_ocr(chat)

(***************************************************************************)
(* The documents and the environment of the pipeline                       *)
(***************************************************************************)
TextBlock(t) == [type |-> 0, text |-> t, ok |-> TRUE]
ImageBlock(ok) == [type |-> 1, text |-> <<>>, ok |-> ok]

PdfDocs ==
    { [openable |-> FALSE, pages |-> <<>>],
      [openable |-> TRUE, pages |-> <<>>],
      [openable |-> TRUE,
       pages |-> << [blocks |-> <<TextBlock(<<"a", " ">>), ImageBlock(TRUE),
                                  TextBlock(<<"b", " ">>)>>,
                     img_list |-> <<TRUE>>] >>],
      [openable |-> TRUE,
       pages |-> << [blocks |-> <<ImageBlock(TRUE), ImageBlock(FALSE), ImageBlock(TRUE)>>,
                     img_list |-> <<>>],
                    [blocks |-> <<TextBlock(<<" ">>), TextBlock(<<"c", " ">>)>>,
                     img_list |-> <<FALSE, TRUE>>] >>] }

DocxDocs ==
    { [openable |-> FALSE, rels |-> <<>>, paragraphs |-> <<>>, tables |-> <<>>],
      [openable |-> TRUE, rels |-> <<"rId1">>,
       paragraphs |-> << [text |-> <<"a">>, blips |-> <<"rId1">>],
                         [text |-> <<"b">>, blips |-> <<>>] >>,
       tables |-> <<>>],
      [openable |-> TRUE, rels |-> <<"rId1", "rId2">>,
       paragraphs |-> << [text |-> <<" ">>, blips |-> <<"rId1", "rId1", "rId9">>] >>,
       tables |-> << <<<<"c">>, <<" ">>, <<"d">>>>, << <<" ">> >> >>] }

\* the names of the input files of the pipeline
NamePdf == <<"a", ".", "p", "d", "f">>
NamePDF == <<"a", ".", "P", "D", "F">>
NameDocx == <<"a", ".", "d", "o", "c", "x">>
NameTxt == <<"a", ".", "t", "x", "t">>
NameNoExt == <<"a">>
Names == {NamePdf, NamePDF, NameDocx, NameTxt, NameNoExt}

\* the input files: a missing path, a file of another type, a PDF, a Word file
FilePaths ==
    [exists : {FALSE}, name : Names, doc : {NoDoc}]
    \cup [exists : {TRUE}, name : {NameTxt, NameNoExt}, doc : {NoDoc}]
    \cup [exists : {TRUE}, name : {NamePdf, NamePDF}, doc : PdfDocs]
    \cup [exists : {TRUE}, name : {NameDocx}, doc : DocxDocs]

\* output_file: None, a path that can be written, a path that cannot
OutputFiles == {None, "out.txt", "/missing/out.txt"}

\* what PIL and model.chat do with one image
Chats ==
    { [kind |-> "unreadable", text |-> <<>>],
      [kind |-> "raises", text |-> <<>>],
      [kind |-> "chat", text |-> <<>>],
      [kind |-> "chat", text |-> <<" ">>],
      [kind |-> "chat", text |-> <<"x">>] }

(***************************************************************************)
(* extract_from_file and extract_and_align_pattern                         *)
(***************************************************************************)
\* the call, with its arguments
Call ==
    /\ pc = "idle"
    /\ \E f \in {"extract_from_file", "extract_and_align_pattern"},
          path \in FilePaths, out \in OutputFiles :
          /\ fn' = f
          /\ file_path' = path
          /\ output_file' = out
    /\ pc' = "check"
    /\ UNCHANGED <<temp_dir, disk, ordered_content, images_info, img_i, ocr_returns, ocr_chats,
                   final_text, written, exc>>
    /\ UNCHANGED <<textVars, fileVars>>

\* `if not os.path.exists(file_path): raise FileNotFoundError`, then
\* temp_dir = tempfile.mkdtemp()
CheckExists ==
    /\ pc = "check"
    /\ IF ~file_path.exists
       THEN /\ exc' = "FileNotFoundError"
            /\ pc' = "done"
            /\ UNCHANGED temp_dir
       ELSE /\ temp_dir' = "created"
            /\ pc' = "process"
            /\ UNCHANGED exc
    /\ UNCHANGED <<fn, file_path, output_file, disk, ordered_content, images_info, img_i,
                   ocr_returns, ocr_chats, final_text, written>>
    /\ UNCHANGED <<textVars, fileVars>>

\* the file type and the extractor: processor.process(file_path, temp_dir),
\* or ValueError for another type
Process ==
    /\ pc = "process"
    /\ LET file_type == get_file_type(file_path.name)
           r == IF file_type = "pdf" THEN pdf_process(file_path.doc)
                ELSE IF file_type = "docx" THEN docx_process(file_path.doc)
                ELSE [raised |-> "ValueError", st |-> ExtractStart]
       IN IF r.raised # ""
          THEN /\ exc' = r.raised
               /\ pc' = "finally"
               /\ UNCHANGED <<ordered_content, images_info, disk>>
          ELSE /\ ordered_content' = r.st.ordered_items
               /\ images_info' = r.st.images_info
               /\ disk' = r.st.files
               /\ pc' = "ocr_init"
               /\ UNCHANGED exc
    /\ UNCHANGED <<fn, file_path, output_file, temp_dir, img_i, ocr_returns, ocr_chats, final_text,
                   written>>
    /\ UNCHANGED <<textVars, fileVars>>

\* ocr_processor = OCRProcessor(...): the model loads
OcrInit ==
    /\ pc = "ocr_init"
    /\ pc' = "ocr"
    /\ img_i' = 1
    /\ UNCHANGED <<fn, file_path, output_file, temp_dir, disk, ordered_content,
                   images_info, ocr_returns, ocr_chats, final_text, written, exc>>
    /\ UNCHANGED <<textVars, fileVars>>

\* ocr_processor = OCRProcessor(...): transformers is missing or the model
\* does not load, ImportError
OcrInitFails ==
    /\ pc = "ocr_init"
    /\ exc' = "ImportError"
    /\ pc' = "finally"
    /\ UNCHANGED <<fn, file_path, output_file, temp_dir, disk, ordered_content,
                   images_info, img_i, ocr_returns, ocr_chats, final_text, written>>
    /\ UNCHANGED <<textVars, fileVars>>

\* one turn of `for idx, image_path in images_info`
OcrImage ==
    /\ pc = "ocr"
    /\ img_i <= Len(images_info)
    /\ \E chat \in Chats :
          LET ocr_text == process_single_image(images_info[img_i].path, disk, chat)
          IN /\ ocr_returns' = Append(ocr_returns, ocr_text)
             /\ ocr_chats' = Append(ocr_chats, chat)
             /\ ordered_content' =
                   IF NonBlank(ocr_text)
                   THEN Append(ordered_content,
                               [idx |-> ocr_key(images_info[img_i].idx), type |-> "text",
                                content |-> ocr_text])
                   ELSE ordered_content
    /\ img_i' = img_i + 1
    /\ UNCHANGED <<pc, fn, file_path, output_file, temp_dir, disk, images_info,
                   final_text, written, exc>>
    /\ UNCHANGED <<textVars, fileVars>>

\* ordered_content.sort(key=lambda x: x[0]), then text_merger.merge or
\* text_merger.align_pattern on the sorted list
SortAndMerge ==
    /\ pc = "ocr"
    /\ img_i > Len(images_info)
    /\ ordered_content' = sorted(ordered_content)
    /\ content_items' = sorted(ordered_content)
    /\ IF fn = "extract_from_file"
       THEN /\ last' = "merge"
            /\ merged_text' = merge_blocks(sorted(ordered_content))
            /\ result' = merge(sorted(ordered_content))
            /\ UNCHANGED <<patterns, categorized_content, result_list, raised>>
       ELSE LET r == align_pattern(sorted(ordered_content), None)
            IN /\ last' = "align"
               /\ patterns' = None
               /\ categorized_content' = r.cat
               /\ result_list' = r.lines
               /\ raised' = r.raised
               /\ result' = r.out
               /\ UNCHANGED merged_text
    /\ pc' = "write"
    /\ UNCHANGED <<fn, file_path, output_file, temp_dir, disk, images_info, img_i,
                   ocr_returns, ocr_chats, final_text, written, exc>>
    /\ UNCHANGED <<ocr_results, fileVars>>

\* a faulty variant: the text returned without the write to output_file
WriteOutput_no_write ==
    /\ pc = "write"
    /\ final_text' = result
    /\ pc' = "finally"
    /\ UNCHANGED <<fn, file_path, output_file, temp_dir, disk, ordered_content,
                   images_info, img_i, ocr_returns, ocr_chats, written, exc>>
    /\ UNCHANGED <<textVars, fileVars>>

\* `if output_file:` open and write; then return
WriteOutput ==
    /\ pc = "write"
    /\ IF output_file = None
       THEN /\ final_text' = result
            /\ UNCHANGED <<written, exc>>
       ELSE IF output_file = "out.txt"
       THEN /\ written' = result
            /\ final_text' = result
            /\ UNCHANGED exc
       ELSE /\ exc' = "FileNotFoundError"
            /\ UNCHANGED <<written, final_text>>
    /\ pc' = "finally"
    /\ UNCHANGED <<fn, file_path, output_file, temp_dir, disk, ordered_content,
                   images_info, img_i, ocr_returns, ocr_chats>>
    /\ UNCHANGED <<textVars, fileVars>>

\* a faulty variant: the function left without shutil.rmtree
Finally_no_rmtree ==
    /\ pc = "finally"
    /\ pc' = "done"
    /\ UNCHANGED <<fn, file_path, output_file, temp_dir, disk, ordered_content,
                   images_info, img_i, ocr_returns, ocr_chats, final_text, written, exc>>
    /\ UNCHANGED <<textVars, fileVars>>

\* a faulty variant: a finally block that returns, so that the exception on
\* its way to the caller is dropped
Finally_returns ==
    /\ pc = "finally"
    /\ temp_dir' = "removed"
    /\ disk' = {}
    /\ exc' = ""
    /\ pc' = "done"
    /\ UNCHANGED <<fn, file_path, output_file, ordered_content, images_info, img_i,
                   ocr_returns, ocr_chats, final_text, written>>
    /\ UNCHANGED <<textVars, fileVars>>

\* finally: shutil.rmtree(temp_dir)
Finally ==
    /\ pc = "finally"
    /\ temp_dir' = "removed"
    /\ disk' = {}
    /\ pc' = "done"
    /\ UNCHANGED <<fn, file_path, output_file, ordered_content, images_info, img_i,
                   ocr_returns, ocr_chats, final_text, written, exc>>
    /\ UNCHANGED <<textVars, fileVars>>

NextExtract ==
    \/ Call \/ CheckExists \/ Process \/ OcrInit \/ OcrInitFails \/ OcrImage
    \/ SortAndMerge \/ WriteOutput \/ Finally

SpecExtract == Init /\ [][NextExtract]_vars

\* the positions of a call that has started and not yet returned or raised
Running == {"check", "process", "ocr_init", "ocr", "write", "finally"}

\* the interpreter moves a running call on: to another statement, or to the
\* next image of the OCR loop
Proceeds ==
    /\ pc \in Running
    /\ pc' \in Running \cup {"done"}
    /\ img_i' \in {img_i, img_i + 1}

\* a call is one sequential run of the function body: a call that has
\* started keeps running until it returns or raises
SpecExtractFair == SpecExtract /\ WF_<<pc, img_i>>(Proceeds)

(***************************************************************************)
(* Helpers of the properties                                               *)
(***************************************************************************)
\* a string of whitespace only (the empty string included), decided
\* character by character
IsBlankStr(s) == \A i \in 1..Len(s) : s[i] \in Whitespace

Indices(seq) == 1..Len(seq)

\* the blocks of merged_text emitted at the turn of item i of content_items
BlocksAt(i) == {k \in Indices(merged_text) : merged_text[k].item = i}

\* the blocks of merged_text that carry the payload of item i of content_items
BlocksFrom(i) == {k \in Indices(merged_text) : merged_text[k].src = i}

IsImage(i) == content_items[i].type = "image"
IsText(i) == content_items[i].type = "text"
IsOcr(i) == content_items[i].type = "ocr"

\* item j is an 'ocr' item with non-blank text
IsOcrText(j) == IsOcr(j) /\ ~IsBlankStr(content_items[j].content)

CountChar(s, c) == Cardinality({i \in Indices(s) : s[i] = c})

\* s holds an empty block between two separators, or starts or ends with one
HasEmptyBlock(s) ==
    \/ Len(s) >= 2 /\ SubSeq(s, 1, 2) = Sep
    \/ Len(s) >= 2 /\ SubSeq(s, Len(s) - 1, Len(s)) = Sep
    \/ \E i \in 1..(Len(s) - 3) : SubSeq(s, i, i + 3) = Sep \o Sep

(***************************************************************************)
(* Properties of TextMerger.merge, checked under SpecMerge                 *)
(***************************************************************************)

\* C1: merge emits its blocks in the order of a stable ascending sort on the
\* key: of two blocks, the one emitted for the item with the smaller key comes
\* first, and blocks of items with equal keys keep the input order of the items.
C1_MergeOrderStable ==
    last = "merge" =>
        \A k1, k2 \in Indices(merged_text) :
            k1 < k2 =>
                LET i1 == merged_text[k1].item
                    i2 == merged_text[k2].item
                IN \/ content_items[i1].idx < content_items[i2].idx
                   \/ content_items[i1].idx = content_items[i2].idx /\ i1 < i2

\* C1 witness: a merged list given out of key order that also holds two
\* emitting items with equal keys
C1_Witness ==
    /\ last = "merge"
    /\ Len(merged_text) = 3
    /\ \E i1, i2 \in Indices(content_items) :
           i1 < i2 /\ content_items[i1].idx > content_items[i2].idx
    /\ \E k1, k2 \in Indices(merged_text) :
           /\ k1 # k2
           /\ content_items[merged_text[k1].item].idx
                = content_items[merged_text[k2].item].idx

\* C2: an image item with key k and an 'ocr' item with non-blank text and key
\* k + 0.5: the block emitted at the image's position is that OCR text and is
\* not the placeholder.
C2_FractionalKeyOcrReplacesImage ==
    last = "merge" =>
        \A i, j \in Indices(content_items) :
            (IsImage(i) /\ IsOcrText(j)
               /\ content_items[j].idx = content_items[i].idx + 1) =>
                /\ BlocksAt(i) # {}
                /\ \A k \in BlocksAt(i) :
                      /\ merged_text[k].text = content_items[j].content
                      /\ merged_text[k].text # Placeholder

\* C4: an image item and an 'ocr' item with non-blank text that share a key:
\* the OCR text is emitted exactly once, as the block at the image's position,
\* and that block is neither the placeholder nor the image path.
C4_SameKeyOcrEmittedOnceAtImage ==
    last = "merge" =>
        \A i, j \in Indices(content_items) :
            (IsImage(i) /\ IsOcrText(j)
               /\ content_items[j].idx = content_items[i].idx) =>
                /\ Cardinality(BlocksFrom(j)) = 1
                /\ BlocksFrom(j) = BlocksAt(i)
                /\ \A k \in BlocksAt(i) :
                      /\ merged_text[k].text # Placeholder
                      /\ merged_text[k].text # content_items[i].content

\* C5: an image item with no matching OCR item (no 'ocr' item with non-blank
\* text at the image's key or at its key + 0.5) gets the placeholder as its
\* block, and no image's block is the image path.
C5_UnmatchedImageGetsPlaceholder ==
    last = "merge" =>
        \A i \in Indices(content_items) :
            IsImage(i) =>
                /\ \A k \in BlocksAt(i) : merged_text[k].text # content_items[i].content
                /\ (~\E j \in Indices(content_items) :
                        /\ IsOcrText(j)
                        /\ content_items[j].idx \in
                             {content_items[i].idx, content_items[i].idx + 1}) =>
                       /\ BlocksAt(i) # {}
                       /\ \A k \in BlocksAt(i) : merged_text[k].text = Placeholder

\* C6: no content item contributes more than one block: the payload of each
\* text item and the text of each 'ocr' item is emitted at most once.
C6_EachItemEmittedAtMostOnce ==
    last = "merge" =>
        \A i \in Indices(content_items) : Cardinality(BlocksFrom(i)) <= 1

\* the items of content_items that emit a block: the text items that are not
\* blank, and the image items
Surviving ==
    {i \in Indices(content_items) :
        \/ IsText(i) /\ ~IsBlankStr(content_items[i].content)
        \/ IsImage(i)}

\* C7: a text item whose payload is empty or whitespace-only adds no block and
\* no separator: no block is emitted at its turn or carries its payload, no
\* emitted block is blank, the output holds exactly one separator between
\* two consecutive surviving items and no empty block.
C7_BlankTextDropped ==
    last = "merge" =>
        /\ \A i \in Indices(content_items) :
              (IsText(i) /\ IsBlankStr(content_items[i].content)) =>
                  BlocksAt(i) = {} /\ BlocksFrom(i) = {}
        /\ \A k \in Indices(merged_text) : ~IsBlankStr(merged_text[k].text)
        /\ ~HasEmptyBlock(result)
        /\ CountChar(result, "\n")
             = IF Surviving = {} THEN 0 ELSE 2 * (Cardinality(Surviving) - 1)

\* C7 witness: a merged list with an empty and a whitespace-only text item
\* between two items that emit blocks
C7_Witness ==
    /\ last = "merge"
    /\ \E i, j \in Indices(content_items) :
          /\ IsText(i) /\ content_items[i].content = <<>>
          /\ IsText(j) /\ content_items[j].content = <<" ">>
    /\ Len(merged_text) >= 1

\* C8: merge applied to the empty list returns the empty string.
C8_MergeEmptyIsEmpty ==
    (last = "merge" /\ content_items = <<>>) => result = <<>>

\* C8 witness: merge has returned for the empty list
C8_Witness == last = "merge" /\ content_items = <<>>

(***************************************************************************)
(* Properties of TextMerger.align_pattern, checked under SpecAlign         *)
(***************************************************************************)
\* the call of align_pattern has returned (it raised nothing)
Aligned == last = "align" /\ raised = ""

\* item i of content_items has an entry in the bucket labelled l
InSection(i, l) ==
    /\ l \in DOMAIN categorized_content
    /\ \E e \in Indices(categorized_content[l]) : categorized_content[l][e].item = i

HasTu(c) == \E k \in Indices(c) : c[k] = "TU"

\* the last character of c is one of the four terminal marks
EndsWithTerminal(c) == c # <<>> /\ c[Len(c)] \in {"JU", ".", "!", "?"}

\* the last character of c that is not whitespace is one of the four
\* terminal marks
EndsWithTerminalBeforeSpace(c) ==
    \E k \in Indices(c) :
        /\ c[k] \in {"JU", ".", "!", "?"}
        /\ \A m \in (k + 1)..Len(c) : c[m] \in Whitespace

\* C9 as stated: a non-blank text item is a Title when its length is below
\* 100 and it ends with one of the four terminal marks, otherwise a Caption
\* when it contains TU and its length is below 200, otherwise Body.
C9_TextHeuristicLastChar ==
    Aligned =>
        \A i \in Indices(content_items) :
            (IsText(i) /\ ~IsBlankStr(content_items[i].content)) =>
                LET c == content_items[i].content
                    expected ==
                        IF Len(c) < 100 /\ EndsWithTerminal(c) THEN Title
                        ELSE IF HasTu(c) /\ Len(c) < 200 THEN Caption
                        ELSE Body
                IN \A l \in DOMAIN categorized_content : InSection(i, l) <=> l = expected

\* C9 amended: a non-blank text item is a Title when its length (whitespace
\* included) is below 100 and its last character that is not whitespace is
\* one of the four terminal marks, otherwise a Caption when it contains TU
\* and its length is below 200, otherwise Body; whatever the other items are.
C9_TextHeuristic ==
    Aligned =>
        \A i \in Indices(content_items) :
            (IsText(i) /\ ~IsBlankStr(content_items[i].content)) =>
                LET c == content_items[i].content
                    expected ==
                        IF Len(c) < 100 /\ EndsWithTerminalBeforeSpace(c) THEN Title
                        ELSE IF HasTu(c) /\ Len(c) < 200 THEN Caption
                        ELSE Body
                IN \A l \in DOMAIN categorized_content : InSection(i, l) <=> l = expected

\* C9 witness: a Title whose terminal mark is followed by whitespace, next to
\* a text of 100 characters that ends with a terminal mark and is no Title
C9_Witness ==
    /\ Aligned
    /\ \E i, j \in Indices(content_items) :
          /\ IsText(i) /\ content_items[i].content = <<"a", "JU", " ">>
          /\ InSection(i, Title)
          /\ IsText(j) /\ Len(content_items[j].content) = 100
          /\ EndsWithTerminal(content_items[j].content)
          /\ ~InSection(j, Title)

\* C10: every 'ocr' item with non-blank text is placed in the Caption
\* section and in no other, whatever its length or punctuation.
C10_OcrAlwaysCaption ==
    Aligned =>
        \A i \in Indices(content_items) :
            IsOcrText(i) =>
                \A l \in DOMAIN categorized_content : InSection(i, l) <=> l = Caption

\* C10 witness: a short 'ocr' item ending with a terminal mark and an 'ocr'
\* item of 200 characters, both in the Caption section
C10_Witness ==
    /\ Aligned
    /\ \E i, j \in Indices(content_items) :
          /\ IsOcr(i) /\ content_items[i].content = <<"x", "JU">>
          /\ IsOcr(j) /\ Len(content_items[j].content) = 200
          /\ InSection(i, Caption) /\ InSection(j, Caption)

(***************************************************************************)
(* Properties of extract_from_file, checked under SpecExtract              *)
(***************************************************************************)

\* C3: in extract_from_file, for every image whose OCR call returned
\* non-blank text, the merged text holds that text right after the image's
\* position and no placeholder block for that image: the placeholder is
\* emitted only for images whose OCR returned empty or blank text.
C3_PlaceholderOnlyWithoutOcrText ==
    (fn = "extract_from_file" /\ last = "merge") =>
        \A m \in Indices(images_info) :
            \A i \in Indices(content_items) :
                (/\ IsImage(i)
                 /\ content_items[i].idx = images_info[m].idx
                 /\ ~IsBlankStr(ocr_returns[m])) =>
                    /\ \A k \in BlocksAt(i) : merged_text[k].text # Placeholder
                    /\ \E k \in Indices(merged_text) :
                          /\ merged_text[k].text = ocr_returns[m]
                          /\ content_items[merged_text[k].item].idx
                               = images_info[m].idx + 1

\* the heading of the section that line k of the list result belongs to
HeadingOf(k) ==
    LET h == CHOOSE m \in 1..k :
                 /\ result_list[m].kind = "heading"
                 /\ \A n \in (m + 1)..k : result_list[n].kind # "heading"
    IN result_list[h].text

\* the lines of the list result that carry item i of content_items
LinesOf(i) == {k \in Indices(result_list) : result_list[k].item = i}

\* C11: in a call of align_pattern that returns, every image item with a
\* non-blank path is in the bucket Other and in no other, has exactly one
\* line in the output, under the heading of Other, and that line is
\* "[TU PIAN: <path>]" and not the path itself.
C11_ImageInOtherRendered ==
    Aligned =>
        \A i \in Indices(content_items) :
            (IsImage(i) /\ ~IsBlankStr(content_items[i].content)) =>
                /\ \A l \in DOMAIN categorized_content : InSection(i, l) <=> l = Other
                /\ Cardinality(LinesOf(i)) = 1
                /\ \A k \in LinesOf(i) :
                      /\ HeadingOf(k) = <<"#", " ", "QI", "TA", "NEI", "RONG">>
                      /\ result_list[k].text
                           = <<"[", "TU", "PIAN", ":", " ">> \o content_items[i].content
                               \o <<"]">>
                      /\ result_list[k].text # content_items[i].content

\* C11 witness: an image with a path, listed before a text item of a lower
\* key that forms a section of its own, has been aligned
C11_Witness ==
    /\ Aligned
    /\ \E i, j \in Indices(content_items) :
          /\ i < j
          /\ IsImage(i) /\ content_items[i].content = <<"p">>
          /\ IsText(j) /\ content_items[j].idx < content_items[i].idx
          /\ InSection(j, Title)
          /\ LinesOf(i) # {}

\* the section a non-blank item belongs to, by its kind and payload
ExpectedSection(i) ==
    LET c == content_items[i].content
    IN IF IsText(i)
       THEN IF Len(c) < 100 /\ EndsWithTerminalBeforeSpace(c) THEN "Title"
            ELSE IF HasTu(c) /\ Len(c) < 200 THEN "Caption"
            ELSE "Body"
       ELSE IF IsOcr(i) THEN "Caption"
       ELSE "Other"

\* some non-blank item of content_items belongs to section s
SectionPopulated(s) ==
    \E i \in Indices(content_items) :
        ~IsBlankStr(content_items[i].content) /\ ExpectedSection(i) = s

\* the text of the heading of section s, if the section is populated
HeadingIfPopulated(s, heading) == IF SectionPopulated(s) THEN <<heading>> ELSE <<>>

\* the string sub occurs in the string s
OccursIn(sub, s) ==
    \E k \in 1..(Len(s) - Len(sub) + 1) : SubSeq(s, k, k + Len(sub) - 1) = sub

\* the headings of the list result, in their order
Headings ==
    LET hs == SelectSeq(result_list, LAMBDA r : r.kind = "heading")
    IN [k \in 1..Len(hs) |-> hs[k].text]

\* C12: with the default categories, the headings of the output are those of
\* the populated sections among Title, Body, Caption, Other, each once and in
\* this order, whatever the order and the keys of the input; a section
\* without an item has no heading in the returned string.
C12_SectionOrderAndPresence ==
    (Aligned /\ patterns = None) =>
        /\ Headings = HeadingIfPopulated("Title", <<"#", " ", "BIAO", "TI">>)
                      \o HeadingIfPopulated("Body", <<"#", " ", "ZHENG", "WEN">>)
                      \o HeadingIfPopulated("Caption",
                                            <<"#", " ", "TU", "PIAN", "SHUO", "MING">>)
                      \o HeadingIfPopulated("Other",
                                            <<"#", " ", "QI", "TA", "NEI", "RONG">>)
        /\ OccursIn(<<"#", " ", "BIAO", "TI">>, result) <=> SectionPopulated("Title")
        /\ OccursIn(<<"#", " ", "ZHENG", "WEN">>, result) <=> SectionPopulated("Body")
        /\ OccursIn(<<"#", " ", "TU", "PIAN", "SHUO", "MING">>, result)
             <=> SectionPopulated("Caption")
        /\ OccursIn(<<"#", " ", "QI", "TA", "NEI", "RONG">>, result)
             <=> SectionPopulated("Other")

\* C12 witness: with the default categories, an OCR item listed first and
\* with the lower key, and a Body text after it: two sections, in the order
\* opposite to the input
C12_Witness ==
    /\ Aligned /\ patterns = None
    /\ Len(content_items) = 2
    /\ IsOcr(1) /\ IsText(2)
    /\ content_items[1].idx < content_items[2].idx
    /\ Headings = << <<"#", " ", "ZHENG", "WEN">>,
                     <<"#", " ", "TU", "PIAN", "SHUO", "MING">> >>

\* the lines of the list result that carry an item
ItemLines == {k \in Indices(result_list) : result_list[k].kind = "item"}

\* C13: in a call of align_pattern that returns, two items of the same
\* section appear in ascending order of their keys, and in the order of the
\* input when their keys are equal, whatever the order of the input.
C13_SectionItemsSortedStable ==
    Aligned =>
        \A k, m \in ItemLines :
            (k < m /\ HeadingOf(k) = HeadingOf(m)) =>
                LET i == result_list[k].item
                    j == result_list[m].item
                IN \/ content_items[i].idx < content_items[j].idx
                   \/ content_items[i].idx = content_items[j].idx /\ i < j

\* C13 witness: two items of one section, listed in descending order of
\* their keys, have been aligned
C13_Witness ==
    /\ Aligned
    /\ \E k, m \in ItemLines :
          /\ k < m /\ HeadingOf(k) = HeadingOf(m)
          /\ result_list[k].item > result_list[m].item
          /\ content_items[result_list[k].item].idx < content_items[result_list[m].item].idx

\* C14 as stated: align_pattern called with a category list of the caller
\* returns without raising for every input, the empty list included, and
\* keeps the bucket Other.
C14_CustomPatternsNeverRaise ==
    (last = "align" /\ patterns # None) =>
        /\ raised = ""
        /\ Other \in DOMAIN categorized_content

\* every item of content_items has an empty or whitespace-only payload
AllBlank == \A i \in Indices(content_items) : IsBlankStr(content_items[i].content)

\* C15 as stated: align_pattern gives an item with an empty or whitespace-only
\* payload, of any kind, no bucket entry and no line, and returns the empty
\* string, without raising, when the input is empty or holds only such items.
C15_BlankDroppedEmptyResult ==
    last = "align" =>
        /\ \A i \in Indices(content_items) :
              IsBlankStr(content_items[i].content) =>
                  /\ \A l \in DOMAIN categorized_content : ~InSection(i, l)
                  /\ LinesOf(i) = {}
        /\ AllBlank => (raised = "" /\ result = <<>>)

\* the headings and items of the list result, in their order
HeadingAndItemTexts ==
    Texts(SelectSeq(result_list, LAMBDA r : r.kind \in {"heading", "item"}))

\* C16 as stated: the string returned by align_pattern is its headings and
\* items, in their order, with exactly two newlines between each two
\* neighbours (heading and item, item and item, last item of a section and
\* the next heading) and nothing after the last item.
C16_OneBlankLineBetweenLines ==
    Aligned => result = Join(HeadingAndItemTexts)

(***************************************************************************)
(* Properties of both methods of TextMerger, checked under SpecCalls       *)
(***************************************************************************)
\* C18: a call of merge or of align_pattern, whether it returns or raises,
\* leaves the list it was given as it was: the same items in the same order,
\* also when the list was not in the order of its keys.
C18_ArgumentUnchanged ==
    [][(last = "none" /\ last' \in {"merge", "align"}) => content_items' = content_items]_vars

\* C18 witness: merge has returned for a list of two items whose keys are
\* in descending order, and the output is not in the order of the list
C18_Witness ==
    /\ last = "merge"
    /\ Len(content_items) = 2
    /\ content_items[1].idx > content_items[2].idx
    /\ \E k, m \in Indices(merged_text) : k < m /\ merged_text[k].item > merged_text[m].item

(***************************************************************************)
(* Properties of the pipeline, checked under SpecExtract                   *)
(***************************************************************************)
\* what the extractor returned for the input file
ExtractorOutput ==
    IF get_file_type(file_path.name) = "pdf"
    THEN pdf_process(file_path.doc).st.ordered_items
    ELSE docx_process(file_path.doc).st.ordered_items

\* the keys of a list are integers (even, in half units), each used once
DistinctIntegerKeys(items) ==
    /\ \A j \in Indices(items) : items[j].idx % 2 = 0
    /\ \A j, k \in Indices(items) : j # k => items[j].idx # items[k].idx

\* the positions of ordered_content that hold a spliced OCR text
Spliced == {j \in Indices(ordered_content) : ordered_content[j].idx % 2 = 1}

\* C19: when the extractor's keys are distinct integers, after the OCR loop
\* and the sort of either pipeline function the keys of ordered_content are
\* pairwise distinct, each image has one spliced item, at its key plus a
\* half, if its OCR text is non-blank and none otherwise, each spliced item
\* comes right after its image, and the other items are the extractor's
\* items in the extractor's order.
C19_SpliceKeepsOrder ==
    (pc = "write" /\ DistinctIntegerKeys(ExtractorOutput)) =>
        /\ \A j, k \in Indices(ordered_content) :
              j # k => ordered_content[j].idx # ordered_content[k].idx
        /\ \A m \in Indices(images_info) :
              Cardinality({j \in Indices(ordered_content) :
                              ordered_content[j].idx = images_info[m].idx + 1})
                = IF IsBlankStr(ocr_returns[m]) THEN 0 ELSE 1
        /\ Cardinality(Spliced)
             = Cardinality({m \in Indices(images_info) : ~IsBlankStr(ocr_returns[m])})
        /\ \A j \in Spliced :
              /\ j > 1
              /\ ordered_content[j - 1].type = "image"
              /\ ordered_content[j - 1].idx = ordered_content[j].idx - 1
        /\ SelectSeq(ordered_content, LAMBDA it : it.idx % 2 = 0) = ExtractorOutput

\* C19 witness: after the sort, two images have a spliced text, one of them
\* followed by a later item of the extractor, and one image has none
C19_Witness ==
    /\ pc = "write"
    /\ Cardinality(Spliced) >= 2
    /\ \E j \in Spliced : j < Len(ordered_content)
    /\ \E m \in Indices(images_info) : IsBlankStr(ocr_returns[m])

\* C20 as stated: process_single_image returns the empty string whenever the
\* image cannot be opened or decoded, the recognition raises, or the
\* recognition yields an empty or whitespace-only text.
C20_OcrFailureReturnsEmpty ==
    \A m \in Indices(ocr_returns) :
        (\/ ocr_chats[m].kind \in {"unreadable", "raises"}
         \/ IsBlankStr(ocr_chats[m].text)) =>
            ocr_returns[m] = <<>>

\* the extractor has returned and the OCR loop has not started:
\* ordered_content and images_info are the lists the extractor returned
Extracted == pc = "ocr_init"

\* the document the extractor has read is a PDF with an image that fails to
\* extract
HasFailedImage ==
    /\ Extracted
    /\ "pages" \in DOMAIN file_path.doc
    /\ \E p \in Indices(file_path.doc.pages) :
          \/ \E b \in Indices(file_path.doc.pages[p].blocks) :
                file_path.doc.pages[p].blocks[b].type = 1
                /\ ~file_path.doc.pages[p].blocks[b].ok
          \/ \E g \in Indices(file_path.doc.pages[p].img_list) :
                ~file_path.doc.pages[p].img_list[g]

\* C21: in the content list an extractor returns, every key is an integer
\* (even, in half units) and is greater than the key of every earlier item,
\* also when an image of the document failed to extract.
C21_ExtractorKeysIncrease ==
    Extracted =>
        /\ \A j \in Indices(ordered_content) : ordered_content[j].idx % 2 = 0
        /\ \A j, k \in Indices(ordered_content) :
              j < k => ordered_content[j].idx < ordered_content[k].idx

\* C21 witness: an extractor has returned at least three items, text and
\* image, for a document with an image that failed to extract
C21_Witness ==
    /\ Extracted
    /\ HasFailedImage
    /\ Len(ordered_content) >= 3
    /\ \E j, k \in Indices(ordered_content) :
          ordered_content[j].type = "text" /\ ordered_content[k].type = "image"

\* C22: every entry of the image list an extractor returns has a key of at
\* least 0, a file written to the output directory, and an image item of the
\* content list with its key and path; every image item of the content list
\* has an entry of the image list with its key and path.
C22_ImageListMatchesContent ==
    Extracted =>
        /\ \A m \in Indices(images_info) :
              /\ images_info[m].idx >= 0
              /\ images_info[m].path \in disk
              /\ \E j \in Indices(ordered_content) :
                    /\ ordered_content[j].type = "image"
                    /\ ordered_content[j].idx = images_info[m].idx
                    /\ ordered_content[j].content = images_info[m].path
        /\ \A j \in Indices(ordered_content) :
              ordered_content[j].type = "image" =>
                  \E m \in Indices(images_info) :
                      /\ images_info[m].idx = ordered_content[j].idx
                      /\ images_info[m].path = ordered_content[j].content

\* C22 witness: an extractor has returned an image list in which two entries
\* share one path, and a third has another path
C22_Witness ==
    /\ Extracted
    /\ \E m, n, o \in Indices(images_info) :
          /\ m # n
          /\ images_info[m].path = images_info[n].path
          /\ images_info[o].path # images_info[m].path

(***************************************************************************)
(* Properties of align_pattern on lists of pairs, under SpecAlignPairs     *)
(***************************************************************************)
\* C23 as stated: align_pattern(text_content, ocr_results) on two lists of
\* pairs returns a string with one "<text>" marker per text pair, one
\* "<image>" marker per OCR pair and the content of every pair.
C23_PairsGetMarkers ==
    last = "align" =>
        /\ raised = ""
        /\ CountChar(result, "<text>") = Len(content_items)
        /\ CountChar(result, "<image>") = Len(ocr_results)
        /\ \A i \in Indices(content_items) : OccursIn(content_items[i].content, result)
        /\ \A i \in Indices(ocr_results) : OccursIn(ocr_results[i].content, result)

(***************************************************************************)
(* Properties of the calls of the pipeline, checked under SpecExtract      *)
(***************************************************************************)
\* the call has ended by returning a value
Returned == pc = "done" /\ exc = ""

\* the call has ended by raising
Failed == pc = "done" /\ exc # ""

\* C24: when extract_from_file or extract_and_align_pattern was given an
\* output file and has returned, the output file exists and holds exactly
\* the string returned.
C24_OutputFileHoldsReturnValue ==
    (Returned /\ output_file # None) =>
        /\ written # None
        /\ final_text # None
        /\ written = final_text

\* C24 witness: a call with an output file has returned a non-empty string
\* that holds a spliced OCR text
C24_Witness ==
    /\ Returned
    /\ output_file = "out.txt"
    /\ final_text # None
    /\ Len(final_text) > 0
    /\ \E m \in Indices(ocr_returns) : ~IsBlankStr(ocr_returns[m])

(***************************************************************************)
(* Properties of FileHandler, checked under SpecFileHandler                *)
(***************************************************************************)
\* c and d are one letter, in upper or lower case
SameLetter(c, d) ==
    \/ c = d
    \/ {c, d} \in {{"p", "P"}, {"d", "D"}, {"f", "F"}, {"o", "O"}, {"c", "C"}, {"x", "X"}}

\* the path p ends with the extension e in some spelling, after a file name
\* that is more than dots
HasExtension(p, e) ==
    LET k == Len(p) - Len(e)
    IN /\ k >= 1
       /\ \A i \in 1..Len(e) : SameLetter(p[k + i], e[i])
       /\ \E j \in 1..k :
             /\ p[j] \notin {".", "/"}
             /\ \A m \in j..k : p[m] # "/"

IsPdfPath(p) == HasExtension(p, <<".", "p", "d", "f">>)
IsDocxPath(p) == HasExtension(p, <<".", "d", "o", "c", "x">>)

\* C25: get_file_type returns 'pdf' for a path with the extension .pdf in
\* any spelling, 'docx' for .docx in any spelling and None for every other
\* path, whether or not a file is at the path.
C25_FileTypeByExtension ==
    fh_last = "get_file_type" =>
        fh_ret = IF IsPdfPath(fh_path) THEN "pdf"
                 ELSE IF IsDocxPath(fh_path) THEN "docx"
                 ELSE None

\* C25 witness: get_file_type has returned 'docx' for a path spelled with
\* upper and lower case letters at which no file is
C25_Witness ==
    /\ fh_last = "get_file_type"
    /\ fh_ret = "docx"
    /\ fh_kind = "missing"
    /\ \E i, j \in Indices(fh_path) : fh_path[i] = "X" /\ fh_path[j] = "d"

\* C26: validate_file returns (True, None) exactly for a regular file with
\* the extension .pdf or .docx; otherwise it returns False and a message:
\* that of the missing path when nothing is at the path, whatever its
\* extension, else that of the path that is no file when it is no regular
\* file, else that of the unsupported type.
C26_ValidateFileOrder ==
    fh_last = "validate_file" =>
        /\ fh_ret.valid <=> (fh_kind = "file" /\ (IsPdfPath(fh_path) \/ IsDocxPath(fh_path)))
        /\ fh_ret.valid => fh_ret.msg = None
        /\ ~fh_ret.valid =>
              /\ fh_ret.msg # None
              /\ OccursIn(<<"BU", "CUN", "ZAI">>, fh_ret.msg) <=> fh_kind = "missing"
              /\ OccursIn(<<"BU", "SHI", "YI", "GE", "WEN", "JIAN">>, fh_ret.msg)
                   <=> fh_kind = "dir"
              /\ OccursIn(<<"BU", "ZHI", "CHI", "DE", "WEN", "JIAN", "LEI", "XING">>,
                          fh_ret.msg)
                   <=> fh_kind = "file"

\* C26 witness: validate_file has reported a missing path whose extension is
\* not supported
C26_Witness ==
    /\ fh_last = "validate_file"
    /\ fh_kind = "missing"
    /\ ~IsPdfPath(fh_path) /\ ~IsDocxPath(fh_path)
    /\ Len(fh_path) > 1
    /\ ~fh_ret.valid
    /\ OccursIn(<<"BU", "CUN", "ZAI">>, fh_ret.msg)

\* C27 as stated: in one run of extract_from_file or extract_and_align_pattern
\* no image path is handed to process_single_image more than once.
C27_EachImageReadOnce ==
    \A m, n \in Indices(ocr_returns) :
        m # n => images_info[m].path # images_info[n].path

\* C28: a temporary directory that extract_from_file or
\* extract_and_align_pattern created is eventually removed, whatever the
\* exit path, and a call that ended for a missing input file has created
\* none.
C28_TempDirEventuallyRemoved ==
    /\ (temp_dir = "created") ~> (temp_dir = "removed")
    /\ [](pc \in {"process", "ocr_init", "ocr", "write", "finally"} => temp_dir = "created")
    /\ []((pc = "done" /\ ~file_path.exists) => temp_dir = "none")
    /\ []((pc = "done" /\ file_path.exists) => temp_dir = "removed")

\* C28 witness: the directory is removed after the write of the output file
\* failed, with image files in it until then
C28_Witness ==
    /\ pc = "done"
    /\ temp_dir = "removed"
    /\ exc = "FileNotFoundError"
    /\ file_path.exists
    /\ Len(images_info) > 0
    /\ disk = {}

\* the call is past the try block's body
BodyLeft == pc \in {"finally", "done"}

\* C29: a failing extract_from_file or extract_and_align_pattern hands its
\* exception to the caller and returns nothing: FileNotFoundError for a
\* missing input, ValueError for a type that is neither PDF nor DOCX, the
\* extractor's error for a document that does not open, ImportError for an
\* OCR model that does not load.  The output file is then not written; it is
\* written only with the text that merge or alignment produced, after they
\* ran; and the ValueError of the type check comes before any OCR model is
\* constructed and any image is read.
C29_FailuresReachCallerUnwritten ==
    /\ (pc = "done") => ((exc # "") <=> (final_text = None))
    /\ (pc = "done" /\ ~file_path.exists) => exc = "FileNotFoundError"
    /\ (BodyLeft /\ file_path.exists /\ get_file_type(file_path.name) = None) =>
          /\ exc = "ValueError"
          /\ img_i = 0
          /\ ocr_chats = <<>>
    /\ (BodyLeft /\ file_path.exists /\ get_file_type(file_path.name) # None
          /\ ~file_path.doc.openable) =>
          exc \in {"FileDataError", "PackageNotFoundError"}
    /\ (exc = "ValueError") => (img_i = 0 /\ ocr_chats = <<>>)
    /\ (exc # "") => written = None
    /\ (written # None) =>
          /\ BodyLeft
          /\ last \in {"merge", "align"}
          /\ written = result
          /\ content_items = ordered_content

\* C29 witness: a call with an output file given has ended with the
\* ValueError of the type check, the output file unwritten
C29_Witness ==
    /\ Failed
    /\ exc = "ValueError"
    /\ output_file = "out.txt"
    /\ written = None
    /\ final_text = None

\* the 'ocr' items of content_items whose key is the key of no image item
UnmatchedOcr ==
    {j \in Indices(content_items) :
        /\ IsOcr(j)
        /\ \A i \in Indices(content_items) :
              IsImage(i) => content_items[i].idx # content_items[j].idx}

\* C30: merge emits the text of an 'ocr' item only in blocks emitted at the
\* turn of an image item and emits nothing at the turn of the 'ocr' item
\* itself; an 'ocr' item whose key is the key of no image item is the source
\* of no block; and the number of emitted blocks is the number of non-blank
\* text items plus the number of image items.
C30_OcrTextOnlyAtImages ==
    last = "merge" =>
        /\ \A j \in Indices(content_items) :
              IsOcr(j) =>
                  /\ BlocksAt(j) = {}
                  /\ \A k \in BlocksFrom(j) : IsImage(merged_text[k].item)
        /\ \A j \in UnmatchedOcr : BlocksFrom(j) = {}
        /\ Len(merged_text) =
              Cardinality({i \in Indices(content_items) :
                              IsText(i) /\ ~IsBlankStr(content_items[i].content)})
              + Cardinality({i \in Indices(content_items) : IsImage(i)})

\* C30 witness: a merged list with a non-blank 'ocr' item that no image item
\* shares the key of, next to an 'ocr' item whose text an image block carries
C30_Witness ==
    /\ last = "merge"
    /\ \E j \in UnmatchedOcr : IsOcrText(j)
    /\ \E j \in Indices(content_items) : IsOcr(j) /\ BlocksFrom(j) # {}
    /\ Len(merged_text) = 1

====
